---- MODULE Spec2Model ----
(***************************************************************************)
(* Negative-invoice matching: the greedy allocator (match_single), the     *)
(* grouping batch optimizer (_match_batch_standard, _match_group), the     *)
(* streaming controller (match_batch_streaming, match_batch) of            *)
(* core/matching_engine.py and the optimistic commit (save_match_results)  *)
(* and candidate queries of core/db_manager.py.                            *)
(*                                                                         *)
(* Money is counted in cents (blue_lines.remaining is a two-decimal        *)
(* column), so Decimal('0.01') is 1.  Decimal addition, subtraction and    *)
(* comparison are exact, hence integer arithmetic.                         *)
(***************************************************************************)
EXTENDS Integers, Sequences, FiniteSets, TLC

(* ------------------------------ bounds -------------------------------- *)

\* longest list of negative invoices handed to match_batch
MaxDemands == 3

\* largest amount of a negative invoice, in cents
MaxAmount == 4

\* largest remaining balance of a blue line, in cents
MaxRemaining == 4

\* longest candidate list handed directly to match_single
MaxCands == 3

\* longest list of a process that also commits its results
MaxSaveDemands == 2

(* ------------------------- program constants -------------------------- *)

\* Decimal('0.01'), the tolerated shortfall of match_single
EPS == 1

\* GreedyMatchingEngine(fragment_threshold), here 0.02
fragment_threshold == 2

\* match_batch: batch_count >= 10000 is streamed (scaled to the bounds)
STREAMING_THRESHOLD == 3

\* match_batch: batch_size=1000 (scaled to the bounds)
BATCH_SIZE == 2

\* get_candidates / get_candidates_batch: limit=10000
DEFAULT_LIMIT == 10000

\* config.DYNAMIC_LIMIT_BASE = 200 (scaled to the bounds)
DYNAMIC_LIMIT_BASE == 1

\* config.DYNAMIC_LIMIT_MAX = 2000 (scaled to the bounds)
DYNAMIC_LIMIT_MAX == 2

\* SimpleConnectionPool(2, pool_size): minconn
MINCONN == 2

\* DatabaseManager(pool_size=20): maxconn of the pool (scaled to the bounds)
POOL_SIZE == 2

NO_CANDIDATES == "no_candidates"
INSUFFICIENT_TOTAL_AMOUNT == "insufficient_total_amount"
NoReason == "None"

Procs == {1, 2}
LineIds == {1, 2, 3}

\* grouping keys (tax_rate, buyer_id, seller_id) present in the model
KeyA == <<13, 1, 1>>
KeyB == <<13, 2, 1>>

\* static columns of the blue_lines table; remaining is the mutable one
LineKey(l) == IF l = 3 THEN KeyB ELSE KeyA

(* ------------------------------ helpers ------------------------------- *)

Min(a, b) == IF a <= b THEN a ELSE b

RECURSIVE SumSeq(_)
SumSeq(s) == IF s = <<>> THEN 0 ELSE Head(s) + SumSeq(Tail(s))

\* lexicographic <= on pairs of integers (Python tuple comparison)
KeyLeq(a, b) == \/ a[1] < b[1]
                \/ a[1] = b[1] /\ a[2] <= b[2]

\* Python's sorted / list.sort over [key, item] pairs: stable, ascending
RECURSIVE StableSort(_)
StableSort(s) ==
    IF Len(s) <= 1 THEN s
    ELSE LET front == StableSort(SubSeq(s, 1, Len(s) - 1))
             x     == s[Len(s)]
             \* x goes behind every element whose key is <= its own
             n     == Cardinality({i \in 1..Len(front) : KeyLeq(front[i].key, x.key)})
         IN  SubSeq(front, 1, n) \o <<x>> \o SubSeq(front, n + 1, Len(front))

(* ---------------------------- match_single ---------------------------- *)

MatchAllocation(line_id, use_amount, remaining_after) ==
    [blue_line_id |-> line_id, amount_used |-> use_amount,
     remaining_after |-> remaining_after]

MatchResult(id, success, allocations, total, fragments, reason) ==
    [negative_invoice_id |-> id, success |-> success,
     allocations |-> allocations, total_matched |-> total,
     fragments_created |-> fragments, failure_reason |-> reason]

\* variant: a line left with exactly the threshold counts as a fragment
IsFragment_inclusive(remaining_after) ==
    0 < remaining_after /\ remaining_after <= fragment_threshold

\* the fragment test of one allocation
IsFragment(remaining_after) ==
    0 < remaining_after /\ remaining_after < fragment_threshold

\* variant: the whole need is drawn from a line, whatever it holds
RECURSIVE GreedyLoop_overdraw(_, _, _, _)
GreedyLoop_overdraw(cands, need, allocations, fragments) ==
    IF cands = <<>> \/ need <= EPS
    THEN [need |-> need, allocations |-> allocations, fragments |-> fragments]
    ELSE LET blue_line       == Head(cands)
             use_amount      == need
             remaining_after == blue_line.remaining - use_amount
         IN  GreedyLoop_overdraw(Tail(cands), need - use_amount,
                        Append(allocations,
                               MatchAllocation(blue_line.line_id, use_amount,
                                               remaining_after)),
                        fragments + (IF IsFragment(remaining_after) THEN 1 ELSE 0))

\* variant: 0.01 is left on every line that holds more
RECURSIVE GreedyLoop_sparing(_, _, _, _)
GreedyLoop_sparing(cands, need, allocations, fragments) ==
    IF cands = <<>> \/ need <= EPS
    THEN [need |-> need, allocations |-> allocations, fragments |-> fragments]
    ELSE LET blue_line       == Head(cands)
             use_amount      == Min(need, IF blue_line.remaining > EPS
                                          THEN blue_line.remaining - EPS
                                          ELSE blue_line.remaining)
             remaining_after == blue_line.remaining - use_amount
         IN  GreedyLoop_sparing(Tail(cands), need - use_amount,
                        Append(allocations,
                               MatchAllocation(blue_line.line_id, use_amount,
                                               remaining_after)),
                        fragments + (IF IsFragment(remaining_after) THEN 1 ELSE 0))

\* the for loop over the candidates: state (need, allocations, fragments)
RECURSIVE GreedyLoop(_, _, _, _)
GreedyLoop(cands, need, allocations, fragments) ==
    IF cands = <<>> \/ need <= EPS
    THEN [need |-> need, allocations |-> allocations, fragments |-> fragments]
    ELSE LET blue_line       == Head(cands)
             use_amount      == Min(need, blue_line.remaining)
             remaining_after == blue_line.remaining - use_amount
         IN  GreedyLoop(Tail(cands), need - use_amount,
                        Append(allocations,
                               MatchAllocation(blue_line.line_id, use_amount,
                                               remaining_after)),
                        fragments + (IF IsFragment(remaining_after) THEN 1 ELSE 0))

\* variant: the failure keeps what the loop had matched
InsufficientResult_partial(negative, r) ==
    MatchResult(negative.invoice_id, FALSE, r.allocations, negative.amount - r.need,
                r.fragments, INSUFFICIENT_TOTAL_AMOUNT)

\* the result returned when the loop leaves need > 0.01: r is dropped
InsufficientResult(negative, r) ==
    MatchResult(negative.invoice_id, FALSE, <<>>, 0, 0, INSUFFICIENT_TOTAL_AMOUNT)

\* variant: no tolerance in the success test
match_single_exact(negative, candidates) ==
    IF candidates = <<>>
    THEN MatchResult(negative.invoice_id, FALSE, <<>>, 0, 0, NO_CANDIDATES)
    ELSE LET r == GreedyLoop(candidates, negative.amount, <<>>, 0)
         IN  IF r.need > 0
             THEN InsufficientResult(negative, r)
             ELSE MatchResult(negative.invoice_id, TRUE, r.allocations,
                              negative.amount - r.need, r.fragments, NoReason)

\* variant: a success reports the whole amount as matched
match_single_full(negative, candidates) ==
    IF candidates = <<>>
    THEN MatchResult(negative.invoice_id, FALSE, <<>>, 0, 0, NO_CANDIDATES)
    ELSE LET r == GreedyLoop(candidates, negative.amount, <<>>, 0)
         IN  IF ~(r.need <= EPS)
             THEN InsufficientResult(negative, r)
             ELSE MatchResult(negative.invoice_id, TRUE, r.allocations,
                              negative.amount, r.fragments, NoReason)

\* variant: the empty candidate list is not told apart
match_single_unchecked(negative, candidates) ==
    LET r == GreedyLoop(candidates, negative.amount, <<>>, 0)
    IN  IF ~(r.need <= EPS)
        THEN InsufficientResult(negative, r)
        ELSE MatchResult(negative.invoice_id, TRUE, r.allocations,
                         negative.amount - r.need, r.fragments, NoReason)

match_single(negative, candidates) ==
    IF candidates = <<>>
    THEN MatchResult(negative.invoice_id, FALSE, <<>>, 0, 0, NO_CANDIDATES)
    ELSE LET r             == GreedyLoop(candidates, negative.amount, <<>>, 0)
             total_matched == negative.amount - r.need
             success       == r.need <= EPS
         IN  IF ~success
             THEN InsufficientResult(negative, r)
             ELSE MatchResult(negative.invoice_id, success, r.allocations,
                              total_matched, r.fragments, NoReason)

(* ------------------- candidate queries (db_manager) ------------------- *)

BlueLineItem(l, remaining) ==
    [line_id |-> l, remaining |-> remaining, tax_rate |-> LineKey(l)[1],
     buyer_id |-> LineKey(l)[2], seller_id |-> LineKey(l)[3]]

\* the orders in which the database may return rows that tie in ORDER BY;
\* a query reads the rows of one key, so only their relative order counts
RowOrders == {f \in [LineIds -> 1..Cardinality(LineIds)] :
                 /\ \A a, b \in LineIds : a # b => f[a] # f[b]
                 /\ \A a, b \in LineIds :
                       (a < b /\ LineKey(a) # LineKey(b)) => f[a] < f[b]}

\* the ids of a set of lines as a sequence, by physical row order
RECURSIVE RowSeq(_, _)
RowSeq(ls, order) ==
    IF ls = {} THEN <<>>
    ELSE LET l == CHOOSE x \in ls : \A y \in ls : order[x] <= order[y]
         IN  <<l>> \o RowSeq(ls \ {l}, order)

\* SELECT ... WHERE tax_rate, buyer_id, seller_id = key AND remaining > 0
\*        ORDER BY remaining ASC LIMIT limit
SelectCandidates(store, key, limit, order) ==
    LET rows   == {l \in LineIds : LineKey(l) = key /\ store[l] > 0}
        pairs  == [i \in 1..Cardinality(rows) |->
                     LET l == RowSeq(rows, order)[i]
                     IN  [key |-> <<store[l], 0>>, item |-> BlueLineItem(l, store[l])]]
        sorted == StableSort(pairs)
    IN  [i \in 1..Min(Len(sorted), limit) |-> sorted[i].item]

get_candidates(store, key, order) ==
    SelectCandidates(store, key, DEFAULT_LIMIT, order)

\* group_counts=None: a dict without any key
NoCounts == <<>>

\* the LIMIT of the sub-query of one condition
ActualLimit(condition, limit, group_counts) ==
    IF condition \in DOMAIN group_counts
    THEN Min(DYNAMIC_LIMIT_BASE * group_counts[condition], DYNAMIC_LIMIT_MAX)
    ELSE limit

\* all_rows: the rows of the UNION ALL query, one sub-query per condition, each
\* with its LIMIT
RECURSIVE BatchRows(_, _, _, _)
BatchRows(store, conditions, group_counts, order) ==
    IF conditions = <<>> THEN <<>>
    ELSE SelectCandidates(store, Head(conditions),
                          ActualLimit(Head(conditions), DEFAULT_LIMIT, group_counts),
                          order)
         \o BatchRows(store, Tail(conditions), group_counts, order)

\* condition = (row[2], row[3], row[4]) of a row
RowCondition(row) == <<row.tax_rate, row.buyer_id, row.seller_id>>

\* variant: every row is appended to the list of every condition
get_candidates_batch_mixed(store, conditions, group_counts, order) ==
    LET all_rows == BatchRows(store, conditions, group_counts, order)
    IN  [k \in {conditions[i] : i \in 1..Len(conditions)} |->
            SubSeq(all_rows, 1, Min(Len(all_rows), DEFAULT_LIMIT))]

\* one UNION ALL query over all conditions; every row is then appended to the
\* list of the condition its own columns spell, at most limit rows per condition
get_candidates_batch(store, conditions, group_counts, order) ==
    LET all_rows == BatchRows(store, conditions, group_counts, order)
    IN  [k \in {conditions[i] : i \in 1..Len(conditions)} |->
            LET rows == SelectSeq(all_rows, LAMBDA row : RowCondition(row) = k)
            IN  SubSeq(rows, 1, Min(Len(rows), DEFAULT_LIMIT))]

(* ------------------------ grouping and sorting ------------------------ *)

GroupKey(negative) ==
    <<negative.tax_rate, negative.buyer_id, negative.seller_id>>

\* the keys of the groups dict, in insertion order
RECURSIVE GroupKeys(_)
GroupKeys(negs) ==
    IF negs = <<>> THEN <<>>
    ELSE LET front == GroupKeys(SubSeq(negs, 1, Len(negs) - 1))
             k     == GroupKey(negs[Len(negs)])
         IN  IF \E i \in 1..Len(front) : front[i] = k THEN front
             ELSE Append(front, k)

\* groups[key]: the (original_index, negative) pairs of one key
GroupMembers(negs, key) ==
    LET pairs == [i \in 1..Len(negs) |-> [original_index |-> i, negative |-> negs[i]]]
    IN  SelectSeq(pairs, LAMBDA x : GroupKey(x.negative) = key)

_group_negatives_by_conditions(negs) ==
    [j \in 1..Len(GroupKeys(negs)) |->
        [key |-> GroupKeys(negs)[j], members |-> GroupMembers(negs, GroupKeys(negs)[j])]]

\* variant: amount_desc without the minus sign
_get_sort_key_unsigned(negative, strategy) ==
    IF strategy = "amount_desc" THEN <<negative.amount, 0>>
    ELSE IF strategy = "amount_asc" THEN <<negative.amount, 0>>
    ELSE IF strategy = "priority_desc" THEN <<-negative.priority, -negative.amount>>
    ELSE <<0, 0>>

_get_sort_key(negative, strategy) ==
    IF strategy = "amount_desc" THEN <<-negative.amount, 0>>
    ELSE IF strategy = "amount_asc" THEN <<negative.amount, 0>>
    ELSE IF strategy = "priority_desc" THEN <<-negative.priority, -negative.amount>>
    ELSE <<0, 0>>

\* sorted(group_negatives, key=_get_sort_key)
SortedGroup(group_negatives, strategy) ==
    LET pairs == [i \in 1..Len(group_negatives) |->
                    [key  |-> _get_sort_key(group_negatives[i].negative, strategy),
                     item |-> group_negatives[i]]]
        sorted == StableSort(pairs)
    IN  [i \in 1..Len(sorted) |-> sorted[i].item]

(* ----------------------------- _match_group --------------------------- *)

\* variant: every local candidate is handed on, whatever it holds
AvailableCandidates_unfiltered(local_candidates) ==
    LET pairs  == [i \in 1..Len(local_candidates) |->
                     [key  |-> <<local_candidates[i].remaining, 0>>,
                      item |-> local_candidates[i]]]
        sorted == StableSort(pairs)
    IN  [i \in 1..Len(sorted) |-> sorted[i].item]

\* the candidates with remaining > 0.01, sorted ascending by remaining
AvailableCandidates(local_candidates) ==
    LET avail  == SelectSeq(local_candidates, LAMBDA c : c.remaining > EPS)
        pairs  == [i \in 1..Len(avail) |->
                     [key |-> <<avail[i].remaining, 0>>, item |-> avail[i]]]
        sorted == StableSort(pairs)
    IN  [i \in 1..Len(sorted) |-> sorted[i].item]

\* variant: the local copies are never updated
ApplyAllocations_skip(local_candidates, result) == local_candidates

\* local_candidates[alloc.blue_line_id].remaining = alloc.remaining_after
ApplyAllocations(local_candidates, result) ==
    IF ~result.success THEN local_candidates
    ELSE [i \in 1..Len(local_candidates) |->
            LET c    == local_candidates[i]
                hits == {j \in 1..Len(result.allocations) :
                            result.allocations[j].blue_line_id = c.line_id}
            IN  IF hits = {} THEN c
                ELSE LET last == CHOOSE j \in hits : \A h \in hits : h <= j
                     IN  [c EXCEPT !.remaining = result.allocations[last].remaining_after]]

\* variant: the loop ends with the first negative invoice that fails
RECURSIVE MatchGroupLoop_abort(_, _, _)
MatchGroupLoop_abort(sorted_group, local_candidates, steps) ==
    IF sorted_group = <<>> THEN steps
    ELSE LET negative             == Head(sorted_group).negative
             available_candidates == AvailableCandidates(local_candidates)
             result               == match_single(negative, available_candidates)
             step                 == [negative             |-> negative,
                                      local_candidates     |-> local_candidates,
                                      available_candidates |-> available_candidates,
                                      result               |-> result]
         IN  IF ~result.success THEN Append(steps, step)
             ELSE MatchGroupLoop_abort(Tail(sorted_group),
                                       ApplyAllocations(local_candidates, result),
                                       Append(steps, step))

\* the loop over sorted_group: one step per negative invoice, in processing
\* order, with local_candidates as the step found it, the available_candidates
\* it handed to match_single and the result it appended
RECURSIVE MatchGroupLoop(_, _, _)
MatchGroupLoop(sorted_group, local_candidates, steps) ==
    IF sorted_group = <<>> THEN steps
    ELSE LET negative             == Head(sorted_group).negative
             available_candidates == AvailableCandidates(local_candidates)
             result               == match_single(negative, available_candidates)
         IN  MatchGroupLoop(Tail(sorted_group),
                            ApplyAllocations(local_candidates, result),
                            Append(steps,
                                   [negative             |-> negative,
                                    local_candidates     |-> local_candidates,
                                    available_candidates |-> available_candidates,
                                    result               |-> result]))

\* the steps of one _match_group call
GroupSteps(group_negatives, candidates, strategy) ==
    MatchGroupLoop(SortedGroup(group_negatives, strategy), candidates, <<>>)

\* results, as _match_group returns it
_match_group(group_negatives, candidates, strategy) ==
    LET steps == GroupSteps(group_negatives, candidates, strategy)
    IN  [i \in 1..Len(steps) |-> steps[i].result]

\* variant: only the first pair of the zip is written
PlaceResults_first(results, group_negatives, group_results) ==
    [i \in 1..Len(results) |->
        IF group_negatives # <<>> /\ group_results # <<>>
           /\ group_negatives[1].original_index = i
        THEN group_results[1] ELSE results[i]]

\* results[original_index] = result for (original_index, _), result in zip(...)
PlaceResults(results, group_negatives, group_results) ==
    [i \in 1..Len(results) |->
        LET hits == {j \in 1..Min(Len(group_negatives), Len(group_results)) :
                        group_negatives[j].original_index = i}
        IN  IF hits = {} THEN results[i]
            ELSE group_results[CHOOSE j \in hits : TRUE]]

\* the results written for a key without candidates
NoCandidateResults(group_negatives) ==
    [j \in 1..Len(group_negatives) |->
        MatchResult(group_negatives[j].negative.invoice_id, FALSE, <<>>, 0, 0,
                    NO_CANDIDATES)]

(* ------------------------------- state -------------------------------- *)

VARIABLES
    blue_lines,        \* blue_lines.remaining of every line, as committed
    match_records,     \* the committed rows of match_records
    initial_remaining, \* blue_lines.remaining of every line before any call
    negatives,         \* per process: the list handed to match_batch
    sort_strategy,     \* per process: the sort_strategy argument
    batched,           \* per process: the provider has get_candidates_batch
    pc,                \* per process: where it stands
    chunk_start,       \* match_batch_streaming: i, the offset of the chunk
    all_results,       \* match_batch_streaming: all_results
    batch_negatives,   \* _match_batch_standard: negatives
    groups,            \* _match_batch_standard: groups, in dict order
    group_candidates,  \* _match_batch_standard: group_candidates
    results,           \* _match_batch_standard: results, as returned
    fetch_log,         \* the candidate queries issued, in order
    returned,          \* what match_batch returned
    call_log,          \* per _match_batch_standard call: its negatives, its
                       \* results, its queries and match_single calls in order
    all_allocations,   \* save_match_results: all_allocations
    update_pos,        \* save_match_results: parameter sets of executemany done
    updated_count,     \* save_match_results: cur.rowcount, summed by executemany
    not_applied,       \* positions of all_allocations whose UPDATE hit no row
    tx_delta,          \* per process and line: decrement not yet committed
    tx_rows,           \* per process: the rows its open transaction has locked
    failed_lines,      \* save_match_results: failed_lines of the conflict report
    save_ret,          \* what save_match_results returned
    changed,           \* per process: lines others changed since its fetch
    single_negative,   \* a direct match_single call: negative
    single_candidates, \* a direct match_single call: candidates
    single_result,     \* a direct match_single call: the MatchResult
    single_again,      \* the MatchResult of a second call on the same arguments
    pool_idle,         \* SimpleConnectionPool: the connections waiting in the pool
    pool_used,         \* SimpleConnectionPool: per connection, who has it checked out
    conn_closed,       \* the connections whose closed attribute is nonzero
    db_pc,             \* per process: where its DatabaseManager call stands
    db_kind,           \* per process: which DatabaseManager method it calls
    db_conn            \* per process: conn of the call, 0 when it holds none

batch_vars == <<negatives, sort_strategy, batched, pc, chunk_start, all_results,
                batch_negatives, groups, group_candidates, results,
                fetch_log, returned, call_log>>
single_vars == <<single_negative, single_candidates, single_result, single_again>>
save_vars == <<all_allocations, update_pos, updated_count, not_applied, tx_delta,
               tx_rows, failed_lines, save_ret>>
store_vars == <<blue_lines, match_records, initial_remaining>>
pool_vars == <<pool_idle, pool_used, conn_closed, db_pc, db_kind, db_conn>>
vars == <<store_vars, batch_vars, save_vars, changed, single_vars, pool_vars>>

\* the None entries of results = [None] * len(negatives)
None == MatchResult(0, FALSE, <<>>, 0, 0, "unset")

Strategies == {"amount_desc", "amount_asc", "priority_desc", "none"}

NegativeInvoice(id, amount, buyer_id, priority) ==
    [invoice_id |-> id, amount |-> amount, tax_rate |-> 13,
     buyer_id |-> buyer_id, seller_id |-> 1, priority |-> priority]

\* amounts of the invoices of a batch: within the tolerance, one line's worth,
\* more than one line's worth
BatchAmounts == {1, 2, MaxAmount}

\* balances of the stored lines: spent, within the tolerance, small, large
Balances == {0, 1, 2, MaxRemaining}

\* the lists of 1..n negative invoices with distinct ids 101, 102, ...
DemandLists(n, priorities) ==
    UNION {{[i \in 1..m |-> NegativeInvoice(100 + i, f[i][1], f[i][2], f[i][3])] :
               f \in [1..m -> BatchAmounts \X {1, 2} \X priorities]} : m \in 1..n}

(* ------------------------ match_batch, stepwise ----------------------- *)

\* variant: no list is long enough to be streamed
Streamed_never(p) == FALSE

\* match_batch: if batch_count >= 10000
Streamed(p) == Len(negatives[p]) >= STREAMING_THRESHOLD

\* negatives[i:batch_end] of the streaming loop, or the whole list
NextBatch(p) ==
    IF Streamed(p)
    THEN SubSeq(negatives[p], chunk_start[p] + 1,
                Min(chunk_start[p] + BATCH_SIZE, Len(negatives[p])))
    ELSE negatives[p]

\* variant: one get_candidates query per key, batched source or not
PrefetchLog_single(keys, is_batched) ==
    [i \in 1..Len(keys) |-> [kind |-> "single", keys |-> <<keys[i]>>]]

\* the queries of _prefetch_candidates_for_groups
PrefetchLog(keys, is_batched) ==
    IF is_batched THEN <<[kind |-> "batch", keys |-> keys]>>
    ELSE [i \in 1..Len(keys) |-> [kind |-> "single", keys |-> <<keys[i]>>]]

_prefetch_candidates_for_groups(store, keys, is_batched, order) ==
    IF is_batched
    THEN IF keys = <<>> THEN <<>>
         ELSE get_candidates_batch(store, keys, NoCounts, order)
    ELSE [k \in {keys[i] : i \in 1..Len(keys)} |-> get_candidates(store, k, order)]

\* the match_single invocations of one _match_group call, in order: whose
\* invoice, and the step of the loop that made the invocation
AllocEvents(key, steps) ==
    [i \in 1..Len(steps) |->
        [kind |-> "alloc", keys |-> <<key>>, id |-> steps[i].result.negative_invoice_id,
         step |-> steps[i]]]

\* variant: a key without candidates goes through _match_group as well
RECURSIVE RunGroups_always(_, _, _, _)
RunGroups_always(gs, cands, st, strategy) ==
    IF gs = <<>> THEN st
    ELSE LET g             == Head(gs)
             group_results == _match_group(g.members, cands[g.key], strategy)
             steps         == GroupSteps(g.members, cands[g.key], strategy)
         IN  RunGroups_always(Tail(gs), cands,
                              [results |-> PlaceResults(st.results, g.members,
                                                        group_results),
                               calls   |-> st.calls \o AllocEvents(g.key, steps)],
                              strategy)

\* the loop "for group_key, group_negatives in groups.items()"; st holds the
\* results list and the match_single invocations made so far
RECURSIVE RunGroups(_, _, _, _)
RunGroups(gs, cands, st, strategy) ==
    IF gs = <<>> THEN st
    ELSE LET g          == Head(gs)
             candidates == cands[g.key]
         IN  IF candidates = <<>>
             THEN RunGroups(Tail(gs), cands,
                            [results |-> PlaceResults(st.results, g.members,
                                                      NoCandidateResults(g.members)),
                             calls   |-> st.calls],
                            strategy)
             ELSE LET group_results == _match_group(g.members, candidates, strategy)
                      steps         == GroupSteps(g.members, candidates, strategy)
                  IN  RunGroups(Tail(gs), cands,
                                [results |-> PlaceResults(st.results, g.members,
                                                          group_results),
                                 calls   |-> st.calls \o AllocEvents(g.key, steps)],
                                strategy)

\* one call of _match_batch_standard, from match_batch (the whole list) or from
\* the loop of match_batch_streaming (the next chunk): group, prefetch, match
\* group by group, return; the streaming loop extends all_results and either
\* goes on or returns
StandardCall(p) ==
    /\ pc[p] = "start"
    /\ LET negs == NextBatch(p)
           g    == _group_negatives_by_conditions(negs)
           keys == [j \in 1..Len(g) |-> g[j].key]
       IN  \E cands \in {_prefetch_candidates_for_groups(blue_lines, keys,
                                          batched[p], order) : order \in RowOrders} :
           \E run \in {RunGroups(g, cands,
                                 [results |-> [i \in 1..Len(negs) |-> None],
                                  calls   |-> <<>>],
                                 sort_strategy[p])} :
             LET res == run.results
                 all == all_results[p] \o res
                 i   == chunk_start[p] + BATCH_SIZE
             IN  /\ batch_negatives' = [batch_negatives EXCEPT ![p] = negs]
                 /\ call_log' = [call_log EXCEPT ![p] = Append(@,
                        [negatives |-> negs, results |-> res,
                         trace |-> PrefetchLog(keys, batched[p]) \o run.calls])]
                 /\ groups' = [groups EXCEPT ![p] = g]
                 /\ group_candidates' = [group_candidates EXCEPT ![p] = cands]
                 /\ fetch_log' = [fetch_log EXCEPT ![p] =
                                     @ \o PrefetchLog(keys, batched[p])]
                 /\ results' = [results EXCEPT ![p] = res]
                 /\ IF Streamed(p)
                    THEN /\ all_results' = [all_results EXCEPT ![p] = all]
                         /\ IF i < Len(negatives[p])
                            THEN /\ chunk_start' = [chunk_start EXCEPT ![p] = i]
                                 /\ UNCHANGED <<pc, returned>>
                            ELSE /\ returned' = [returned EXCEPT ![p] = all]
                                 /\ pc' = [pc EXCEPT ![p] = "matched"]
                                 /\ UNCHANGED chunk_start
                    ELSE /\ returned' = [returned EXCEPT ![p] = res]
                         /\ pc' = [pc EXCEPT ![p] = "matched"]
                         /\ UNCHANGED <<chunk_start, all_results>>
    /\ changed' = [changed EXCEPT ![p] = {}]
    /\ UNCHANGED <<store_vars, negatives, sort_strategy, batched, save_vars,
                   single_vars, pool_vars>>

(* ---------------- one engine, one match_batch call -------------------- *)

\* the connection objects the pool can have at one time
Conns == 1..POOL_SIZE

\* the pool as SimpleConnectionPool(2, pool_size) builds it: minconn open
\* connections waiting, none checked out; no DatabaseManager call running
InitPool ==
    /\ pool_idle = 1..MINCONN
    /\ pool_used = [c \in Conns |-> 0]
    /\ conn_closed = {}
    /\ db_pc = [p \in Procs |-> "idle"]
    /\ db_kind = [p \in Procs |-> "get_candidates"]
    /\ db_conn = [p \in Procs |-> 0]

\* nothing called yet: the locals of every call are empty
InitLocals ==
    /\ InitPool
    /\ chunk_start = [p \in Procs |-> 0]
    /\ all_results = [p \in Procs |-> <<>>]
    /\ batch_negatives = [p \in Procs |-> <<>>]
    /\ groups = [p \in Procs |-> <<>>]
    /\ group_candidates = [p \in Procs |-> <<>>]
    /\ results = [p \in Procs |-> <<>>]
    /\ fetch_log = [p \in Procs |-> <<>>]
    /\ returned = [p \in Procs |-> <<>>]
    /\ call_log = [p \in Procs |-> <<>>]
    /\ all_allocations = [p \in Procs |-> <<>>]
    /\ update_pos = [p \in Procs |-> 0]
    /\ updated_count = [p \in Procs |-> 0]
    /\ not_applied = [p \in Procs |-> {}]
    /\ tx_delta = [p \in Procs |-> [l \in LineIds |-> 0]]
    /\ tx_rows = [p \in Procs |-> {}]
    /\ failed_lines = [p \in Procs |-> <<>>]
    /\ save_ret = [p \in Procs |-> FALSE]
    /\ changed = [p \in Procs |-> {}]

\* no direct match_single call
InitNoSingle ==
    /\ single_negative = NegativeInvoice(0, 0, 1, 0)
    /\ single_candidates = <<>>
    /\ single_result = None
    /\ single_again = None

\* process 1 calls match_batch once, on any store; process 2 does not exist
InitBatch ==
    /\ blue_lines \in [LineIds -> Balances]
    /\ initial_remaining = blue_lines
    /\ blue_lines[3] = MaxRemaining
    /\ match_records = <<>>
    /\ \E s \in Strategies, b \in BOOLEAN :
         \E negs \in DemandLists(MaxDemands, IF s = "priority_desc" THEN {0, 1} ELSE {0}) :
            /\ negatives = [p \in Procs |-> IF p = 1 THEN negs ELSE <<>>]
            /\ sort_strategy = [p \in Procs |-> s]
            /\ batched = [p \in Procs |-> b]
    /\ pc = [p \in Procs |-> IF p = 1 THEN "start" ELSE "off"]
    /\ InitLocals
    /\ InitNoSingle

NextBatchCall == \E p \in Procs : StandardCall(p)

SpecBatch == InitBatch /\ [][NextBatchCall]_vars

(* ------------------- a direct call of match_single -------------------- *)

\* any candidate list of up to MaxCands lines, in any order, balances >= 0
CandidateLists ==
    UNION {{[i \in 1..n |-> BlueLineItem(i, f[i])] : f \in [1..n -> 0..MaxRemaining]} :
              n \in 0..MaxCands}

InitSingle ==
    /\ blue_lines = [l \in LineIds |-> 0]
    /\ initial_remaining = blue_lines
    /\ match_records = <<>>
    /\ negatives = [p \in Procs |-> <<>>]
    /\ sort_strategy = [p \in Procs |-> "none"]
    /\ batched = [p \in Procs |-> TRUE]
    /\ pc = [p \in Procs |-> "off"]
    /\ InitLocals
    /\ \E a \in 1..MaxAmount : single_negative = NegativeInvoice(101, a, 1, 0)
    /\ single_candidates \in CandidateLists
    /\ single_result = None
    /\ single_again = None

\* variant: match_single writes remaining_after back into the lines it used
CandidatesAfter_drained(negative, candidates) ==
    ApplyAllocations(candidates, match_single(negative, candidates))

\* the caller's candidate list after match_single returned: the loop reads
\* blue_line.remaining and blue_line.line_id and assigns to no attribute
CandidatesAfter(negative, candidates) == candidates

\* the caller's NegativeInvoice after match_single returned: need is a local
\* that starts at negative.amount; no attribute of negative is assigned
NegativeAfter(negative, candidates) == negative

CallMatchSingle ==
    /\ single_result = None
    /\ single_negative.invoice_id # 0
    /\ single_result' = match_single(single_negative, single_candidates)
    /\ single_candidates' = CandidatesAfter(single_negative, single_candidates)
    /\ single_negative' = NegativeAfter(single_negative, single_candidates)
    /\ UNCHANGED <<store_vars, batch_vars, save_vars, changed, single_again, pool_vars>>

\* match_single called once more with the same objects
CallMatchSingleAgain ==
    /\ single_result # None
    /\ single_again = None
    /\ single_again' = match_single(single_negative, single_candidates)
    /\ single_candidates' = CandidatesAfter(single_negative, single_candidates)
    /\ single_negative' = NegativeAfter(single_negative, single_candidates)
    /\ UNCHANGED <<store_vars, batch_vars, save_vars, changed, single_result, pool_vars>>

NextSingle == CallMatchSingle \/ CallMatchSingleAgain

SpecSingle == InitSingle /\ [][NextSingle]_vars

\* the engine used either way: a batch call or a direct match_single call
SpecEngine == (InitBatch \/ InitSingle) /\ [][NextBatchCall \/ NextSingle]_vars

(* ------------------------- save_match_results ------------------------- *)
(* The store is PostgreSQL at its default isolation, READ COMMITTED: a     *)
(* transaction sees the committed rows and its own changes; an UPDATE      *)
(* locks the rows it changes until commit or rollback; an UPDATE whose     *)
(* WHERE matches a row locked by another transaction waits and evaluates   *)
(* the WHERE again on the row as that transaction left it.                 *)

\* all_allocations: (blue_line_id, amount_used) of the successful results
RECURSIVE CollectAllocations(_)
CollectAllocations(rs) ==
    IF rs = <<>> THEN <<>>
    ELSE (IF Head(rs).success
          THEN [j \in 1..Len(Head(rs).allocations) |->
                  [line_id     |-> Head(rs).allocations[j].blue_line_id,
                   amount_used |-> Head(rs).allocations[j].amount_used]]
          ELSE <<>>) \o CollectAllocations(Tail(rs))

\* variant: one match record per successful result, of its first allocation
RECURSIVE CollectRecords_first(_, _)
CollectRecords_first(rs, batch_id) ==
    IF rs = <<>> THEN <<>>
    ELSE (IF Head(rs).success /\ Head(rs).allocations # <<>>
          THEN <<[batch_id            |-> batch_id,
                  negative_invoice_id |-> Head(rs).negative_invoice_id,
                  blue_line_id        |-> Head(rs).allocations[1].blue_line_id,
                  amount_used         |-> Head(rs).allocations[1].amount_used]>>
          ELSE <<>>) \o CollectRecords_first(Tail(rs), batch_id)

\* match_records: (batch_id, negative_invoice_id, blue_line_id, amount_used)
RECURSIVE CollectRecords(_, _)
CollectRecords(rs, batch_id) ==
    IF rs = <<>> THEN <<>>
    ELSE (IF Head(rs).success
          THEN [j \in 1..Len(Head(rs).allocations) |->
                  [batch_id            |-> batch_id,
                   negative_invoice_id |-> Head(rs).negative_invoice_id,
                   blue_line_id        |-> Head(rs).allocations[j].blue_line_id,
                   amount_used         |-> Head(rs).allocations[j].amount_used]]
          ELSE <<>>) \o CollectRecords(Tail(rs), batch_id)

\* the remaining of row l as the transaction of p reads it
SeenRemaining(p, l) == blue_lines[l] - tx_delta[p][l]

LockedByOther(p, l) == \E q \in Procs \ {p} : l \in tx_rows[q]

\* variant: the UPDATE carries no condition on remaining
UpdateApplies_always(remaining, amount_used) == TRUE

\* variant: the UPDATE asks for more than it takes
UpdateApplies_strict(remaining, amount_used) == remaining > amount_used

\* UPDATE ... WHERE line_id = %s AND remaining >= %s
UpdateApplies(remaining, amount_used) == remaining >= amount_used

\* the UPDATE of p's next parameter set has to wait for a row lock
Waiting(p) ==
    /\ pc[p] = "updating"
    /\ update_pos[p] < Len(all_allocations[p])
    /\ LET a == all_allocations[p][update_pos[p] + 1]
       IN  /\ LockedByOther(p, a.line_id)
           /\ UpdateApplies(blue_lines[a.line_id], a.amount_used)

\* variant: a smaller row count is not noticed
RowCountMismatch_never(count, allocations) == FALSE

\* if updated_count != len(all_allocations)
RowCountMismatch(count, allocations) == count # Len(allocations)

\* failed_lines: the lines whose remaining, read inside the transaction after
\* the updates, is below amount_used
FailedLines(p) ==
    LET hit == SelectSeq(all_allocations[p],
                         LAMBDA a : SeenRemaining(p, a.line_id) < a.amount_used)
    IN  [i \in 1..Len(hit) |-> hit[i].line_id]

\* variant: the decrements that applied stay (autocommit)
RollbackStore_keep(store, delta) == [l \in LineIds |-> store[l] - delta[l]]

\* conn.rollback(): the row versions written by the transaction are dropped
RollbackStore(store, delta) == store

\* variant: a line decremented several times keeps one decrement only
CommitStore_once(store, delta, allocations) ==
    [l \in LineIds |->
        LET hits == {i \in 1..Len(allocations) : allocations[i].line_id = l}
        IN  IF hits = {} THEN store[l]
            ELSE store[l] - allocations[CHOOSE i \in hits : TRUE].amount_used]

\* conn.commit(): the row versions written by the transaction become the rows
CommitStore(store, delta, allocations) == [l \in LineIds |-> store[l] - delta[l]]

\* the processes between their fetch and the end of their commit
InFlight(q) == pc[q] \in {"matched", "updating"}

MarkChanged(p, ls) ==
    [q \in Procs |-> IF q # p /\ InFlight(q) THEN changed[q] \cup ls ELSE changed[q]]

\* lines 204-230: collect the allocations; return True when there is none,
\* else take a connection and open the transaction
SaveBegin(p) ==
    /\ pc[p] = "matched"
    /\ LET allocs == CollectAllocations(returned[p])
       IN  /\ all_allocations' = [all_allocations EXCEPT ![p] = allocs]
           /\ IF allocs = <<>>
              THEN /\ pc' = [pc EXCEPT ![p] = "saved"]
                   /\ save_ret' = [save_ret EXCEPT ![p] = TRUE]
              ELSE /\ pc' = [pc EXCEPT ![p] = "updating"]
                   /\ UNCHANGED save_ret
    /\ UNCHANGED <<store_vars, negatives, sort_strategy, batched, chunk_start,
                   all_results, batch_negatives, groups, group_candidates,
                   results, fetch_log, returned, call_log, update_pos, updated_count,
                   not_applied, tx_delta, tx_rows, failed_lines, changed, single_vars, pool_vars>>

\* one parameter set of cur.executemany(UPDATE blue_lines ...)
SaveUpdate(p) ==
    /\ pc[p] = "updating"
    /\ update_pos[p] < Len(all_allocations[p])
    /\ ~Waiting(p)
    /\ LET a == all_allocations[p][update_pos[p] + 1]
       IN  IF ~LockedByOther(p, a.line_id)
              /\ UpdateApplies(SeenRemaining(p, a.line_id), a.amount_used)
           THEN /\ tx_delta' = [tx_delta EXCEPT ![p][a.line_id] = @ + a.amount_used]
                /\ tx_rows' = [tx_rows EXCEPT ![p] = @ \cup {a.line_id}]
                /\ updated_count' = [updated_count EXCEPT ![p] = @ + 1]
                /\ UNCHANGED not_applied
           ELSE /\ not_applied' = [not_applied EXCEPT ![p] = @ \cup {update_pos[p] + 1}]
                /\ UNCHANGED <<tx_delta, tx_rows, updated_count>>
    /\ update_pos' = [update_pos EXCEPT ![p] = @ + 1]
    /\ UNCHANGED <<store_vars, batch_vars, all_allocations, failed_lines, save_ret,
                   changed, single_vars, pool_vars>>

\* lines 254-296: the row count is checked; on a mismatch the conflict report
\* is built and the transaction rolled back, else the match records are
\* inserted and the transaction committed
SaveFinish(p) ==
    /\ pc[p] = "updating"
    /\ update_pos[p] = Len(all_allocations[p])
    /\ IF RowCountMismatch(updated_count[p], all_allocations[p])
       THEN /\ failed_lines' = [failed_lines EXCEPT ![p] = FailedLines(p)]
            /\ blue_lines' = RollbackStore(blue_lines, tx_delta[p])
            /\ save_ret' = [save_ret EXCEPT ![p] = FALSE]
            /\ UNCHANGED <<match_records, changed>>
       ELSE /\ blue_lines' = CommitStore(blue_lines, tx_delta[p], all_allocations[p])
            /\ match_records' = match_records \o CollectRecords(returned[p], p)
            /\ save_ret' = [save_ret EXCEPT ![p] = TRUE]
            /\ changed' = MarkChanged(p, tx_rows[p])
            /\ UNCHANGED failed_lines
    /\ tx_delta' = [tx_delta EXCEPT ![p] = [l \in LineIds |-> 0]]
    /\ tx_rows' = [tx_rows EXCEPT ![p] = {}]
    /\ pc' = [pc EXCEPT ![p] = "saved"]
    /\ UNCHANGED <<initial_remaining, negatives, sort_strategy, batched, chunk_start,
                   all_results, batch_negatives, groups, group_candidates, results,
                   fetch_log, returned, call_log, all_allocations, update_pos,
                   updated_count, not_applied, single_vars, pool_vars>>

\* two transactions wait for each other's row lock: the server aborts one, its
\* executemany raises, the except branch rolls back and returns False
DeadlockAbort(p) ==
    /\ Waiting(p)
    /\ \E q \in Procs \ {p} :
          /\ Waiting(q)
          /\ all_allocations[p][update_pos[p] + 1].line_id \in tx_rows[q]
          /\ all_allocations[q][update_pos[q] + 1].line_id \in tx_rows[p]
    /\ blue_lines' = RollbackStore(blue_lines, tx_delta[p])
    /\ tx_delta' = [tx_delta EXCEPT ![p] = [l \in LineIds |-> 0]]
    /\ tx_rows' = [tx_rows EXCEPT ![p] = {}]
    /\ save_ret' = [save_ret EXCEPT ![p] = FALSE]
    /\ pc' = [pc EXCEPT ![p] = "aborted"]
    /\ UNCHANGED <<match_records, initial_remaining, negatives, sort_strategy,
                   batched, chunk_start,
                   all_results, batch_negatives, groups, group_candidates,
                   results, fetch_log, returned, call_log, all_allocations,
                   update_pos, updated_count, not_applied, failed_lines, changed,
                   single_vars, pool_vars>>

(* ------------- allocator processes sharing the store ------------------ *)

\* the lists of a process that commits: amounts that draw from the lines
SaveDemandLists ==
    UNION {{[i \in 1..m |-> NegativeInvoice(100 + i, f[i][1], f[i][2], 0)] :
               f \in [1..m -> {2, MaxAmount} \X {1, 2}]} : m \in 1..MaxSaveDemands}

Init ==
    /\ blue_lines \in [LineIds -> {2, MaxRemaining}]
    /\ initial_remaining = blue_lines
    /\ match_records = <<>>
    /\ negatives \in [Procs -> SaveDemandLists]
    /\ sort_strategy = [p \in Procs |-> "amount_desc"]
    /\ batched = [p \in Procs |-> TRUE]
    /\ pc = [p \in Procs |-> "start"]
    /\ InitLocals
    /\ InitNoSingle

Next ==
    \E p \in Procs : \/ StandardCall(p)
                     \/ SaveBegin(p) \/ SaveUpdate(p) \/ SaveFinish(p)
                     \/ DeadlockAbort(p)

Spec == Init /\ [][Next]_vars

(* ------------- connections of the DatabaseManager calls --------------- *)
(* psycopg2's SimpleConnectionPool keeps the connections it handed out in  *)
(* a used table; getconn enters a connection there, and only putconn takes *)
(* it out again.  getconn hands out a waiting connection, else opens a new *)
(* one unless maxconn are in the used table, when it raises PoolError.     *)
(* putconn keeps the connection waiting while fewer than minconn wait,     *)
(* else closes it.  conn.closed is nonzero once the connection was closed  *)
(* or found broken.                                                        *)

DbMethods == {"get_candidates", "get_candidates_batch", "save_match_results"}

\* the connections the pool counts as checked out
CheckedOut == {c \in Conns : pool_used[c] # 0}

\* get_candidates_batch without conditions and save_match_results without
\* allocations return before any connection is taken
DbReturnEarly(p) ==
    /\ db_pc[p] = "idle"
    /\ \E kind \in {"get_candidates_batch", "save_match_results"} :
          db_kind' = [db_kind EXCEPT ![p] = kind]
    /\ db_pc' = [db_pc EXCEPT ![p] = "done"]
    /\ db_conn' = [db_conn EXCEPT ![p] = 0]
    /\ UNCHANGED <<store_vars, batch_vars, save_vars, changed, single_vars,
                   pool_idle, pool_used, conn_closed>>

\* conn = self.pool.getconn(), ahead of the try block
DbGetConn(p) ==
    /\ db_pc[p] = "idle"
    /\ \E kind \in DbMethods : db_kind' = [db_kind EXCEPT ![p] = kind]
    /\ IF pool_idle # {}
       THEN \E c \in pool_idle :
               /\ pool_idle' = pool_idle \ {c}
               /\ pool_used' = [pool_used EXCEPT ![c] = p]
               /\ db_conn' = [db_conn EXCEPT ![p] = c]
               /\ db_pc' = [db_pc EXCEPT ![p] = "body"]
               /\ UNCHANGED conn_closed
       ELSE IF Cardinality(CheckedOut) = POOL_SIZE
       THEN \* PoolError: the call ends without a connection
            /\ db_conn' = [db_conn EXCEPT ![p] = 0]
            /\ db_pc' = [db_pc EXCEPT ![p] = "done"]
            /\ UNCHANGED <<pool_idle, pool_used, conn_closed>>
       ELSE \E c \in Conns \ CheckedOut :
               /\ conn_closed' = conn_closed \ {c}
               /\ pool_used' = [pool_used EXCEPT ![c] = p]
               /\ db_conn' = [db_conn EXCEPT ![p] = c]
               /\ db_pc' = [db_pc EXCEPT ![p] = "body"]
               /\ UNCHANGED pool_idle
    /\ UNCHANGED <<store_vars, batch_vars, save_vars, changed, single_vars>>

\* where the try block of a method goes when its body raises: only
\* save_match_results has an except clause
AfterRaise(kind) == IF kind = "save_match_results" THEN "except" ELSE "finally"

\* the try block: the statements succeed, or one raises with the connection
\* still open (a query error, the row-count mismatch of save_match_results),
\* or one raises because the server connection is lost
DbBody(p) ==
    /\ db_pc[p] = "body"
    /\ \E outcome \in {"ok", "raise", "lost"} :
          /\ db_pc' = [db_pc EXCEPT ![p] =
                          IF outcome = "ok" THEN "finally" ELSE AfterRaise(db_kind[p])]
          /\ conn_closed' = IF outcome = "lost" THEN conn_closed \cup {db_conn[p]}
                            ELSE conn_closed
    /\ UNCHANGED <<store_vars, batch_vars, save_vars, changed, single_vars,
                   pool_idle, pool_used, db_kind, db_conn>>

\* except Exception: conn.rollback(); it raises on a closed connection, and the
\* connection may be lost while it runs
DbRollback(p) ==
    /\ db_pc[p] = "except"
    /\ \/ UNCHANGED conn_closed
       \/ conn_closed' = conn_closed \cup {db_conn[p]}
    /\ db_pc' = [db_pc EXCEPT ![p] = "finally"]
    /\ UNCHANGED <<store_vars, batch_vars, save_vars, changed, single_vars,
                   pool_idle, pool_used, db_kind, db_conn>>

\* pool.putconn(conn) on an open connection
PutConn(p, c) ==
    /\ pool_used' = [pool_used EXCEPT ![c] = 0]
    /\ IF Cardinality(pool_idle) < MINCONN
       THEN pool_idle' = pool_idle \cup {c} /\ UNCHANGED conn_closed
       ELSE conn_closed' = conn_closed \cup {c} /\ UNCHANGED pool_idle

\* the finally block: if conn and not conn.closed: self.pool.putconn(conn);
\* a connection whose closed attribute is nonzero is left as it is (putconn on
\* an open connection is taken to succeed, so its handler is not entered)
DbRelease(p) ==
    /\ db_pc[p] = "finally"
    /\ LET c == db_conn[p]
       IN  IF c \notin conn_closed
           THEN PutConn(p, c)
           ELSE UNCHANGED <<pool_idle, pool_used, conn_closed>>
    /\ db_pc' = [db_pc EXCEPT ![p] = "done"]
    /\ UNCHANGED <<store_vars, batch_vars, save_vars, changed, single_vars,
                   db_kind, db_conn>>

\* the caller goes on to its next DatabaseManager call
DbNextCall(p) ==
    /\ db_pc[p] = "done"
    /\ db_pc' = [db_pc EXCEPT ![p] = "idle"]
    /\ db_conn' = [db_conn EXCEPT ![p] = 0]
    /\ UNCHANGED <<store_vars, batch_vars, save_vars, changed, single_vars,
                   pool_idle, pool_used, conn_closed, db_kind>>

\* no matching in progress: only the DatabaseManager calls and their pool
InitDb ==
    /\ blue_lines = [l \in LineIds |-> 0]
    /\ initial_remaining = blue_lines
    /\ match_records = <<>>
    /\ negatives = [p \in Procs |-> <<>>]
    /\ sort_strategy = [p \in Procs |-> "none"]
    /\ batched = [p \in Procs |-> TRUE]
    /\ pc = [p \in Procs |-> "off"]
    /\ InitLocals
    /\ InitNoSingle

NextDb ==
    \E p \in Procs : \/ DbReturnEarly(p) \/ DbGetConn(p) \/ DbBody(p)
                     \/ DbRollback(p) \/ DbRelease(p) \/ DbNextCall(p)

SpecPool == InitDb /\ [][NextDb]_vars

(* ------------------------------ claims -------------------------------- *)

Done(p) == pc[p] = "matched"

\* the amount drawn from line l by the successful results of a list
RECURSIVE UsedOn(_, _)
UsedOn(rs, l) ==
    IF rs = <<>> THEN 0
    ELSE LET r     == Head(rs)
             drawn == IF r.success
                      THEN SumSeq([j \in 1..Len(r.allocations) |->
                                     IF r.allocations[j].blue_line_id = l
                                     THEN r.allocations[j].amount_used ELSE 0])
                      ELSE 0
         IN  drawn + UsedOn(Tail(rs), l)

\* the remaining line l had in the candidates fetched by the current call
FetchedRemaining(p, l) ==
    IF LineKey(l) \in DOMAIN group_candidates[p]
    THEN SumSeq([j \in 1..Len(group_candidates[p][LineKey(l)]) |->
                   IF group_candidates[p][LineKey(l)][j].line_id = l
                   THEN group_candidates[p][LineKey(l)][j].remaining ELSE 0])
    ELSE 0

\* C1: when match_batch has returned, the result at every index carries the
\* invoice_id of the negative invoice at that index of the input.
C1_ResultsAligned ==
    \A p \in Procs : Done(p) =>
        \A i \in 1..Min(Len(returned[p]), Len(negatives[p])) :
            returned[p][i].negative_invoice_id = negatives[p][i].invoice_id

\* C2: when match_batch has returned, direct or streamed, the returned list is as
\* long as the input, holds no None, and every submitted invoice_id is carried
\* by exactly one result.
C2_OneResultPerDemand ==
    \A p \in Procs : Done(p) =>
        /\ Len(returned[p]) = Len(negatives[p])
        /\ \A i \in 1..Len(returned[p]) : returned[p][i] # None
        /\ \A i \in 1..Len(negatives[p]) :
             Cardinality({j \in 1..Len(returned[p]) :
                returned[p][j].negative_invoice_id = negatives[p][i].invoice_id}) = 1

\* C2 witness: a streamed call has returned a mix of successes and failures
C2_Witness ==
    /\ Done(1) /\ Streamed(1)
    /\ \E i, j \in 1..Len(returned[1]) :
          returned[1][i].success /\ ~returned[1][j].success

\* C3: in one _match_batch_standard call, the amounts drawn from a line by the
\* successful results never add up to more than the remaining it was fetched with.
C3_NoDoubleSpend ==
    \A p \in Procs : \A l \in LineIds :
        UsedOn(results[p], l) <= FetchedRemaining(p, l)

\* C3 witness: two successful demands of one call have drawn from the same line
C3_Witness ==
    \E l \in LineIds : \E i, j \in 1..Len(results[1]) :
        /\ i # j
        /\ UsedOn(<<results[1][i]>>, l) > 0
        /\ UsedOn(<<results[1][j]>>, l) > 0

FailureIsEmpty(r) ==
    ~r.success => r.allocations = <<>> /\ r.total_matched = 0 /\ r.fragments_created = 0

Saved(p) == pc[p] = "saved"

\* p's call found fewer rows updated than allocations submitted
Mismatch(p) == updated_count[p] < Len(all_allocations[p])

\* the step in which save_match_results of p ends after its last UPDATE
Finishing(p) == pc[p] = "updating" /\ pc'[p] = "saved"

NoRecordOf(p) == \A i \in 1..Len(match_records) : match_records[i].batch_id # p

\* what a list of (line_id, amount_used) draws from line l
AllocatedOn(allocs, l) ==
    SumSeq([i \in 1..Len(allocs) |->
              IF allocs[i].line_id = l THEN allocs[i].amount_used ELSE 0])

\* C5: a save_match_results call whose row count falls short returns False and
\* leaves no match record of its batch, and the step that ends it changes no
\* remaining and no match record, whatever decrements had applied inside it.
C5_RollbackOnMismatch ==
    /\ [](\A p \in Procs : (Saved(p) /\ Mismatch(p)) => (~save_ret[p] /\ NoRecordOf(p)))
    /\ [][\A p \in Procs : (Finishing(p) /\ Mismatch(p)) =>
               (blue_lines' = blue_lines /\ match_records' = match_records)]_vars

\* C5 witness: a call was rolled back after some of its decrements had applied
C5_Witness ==
    \E p \in Procs : Saved(p) /\ Mismatch(p) /\ updated_count[p] >= 1

\* C6: the step that ends a save_match_results call all of whose decrements
\* applied returns True, lowers every remaining by exactly the amounts
\* submitted on that line and appends exactly one match record per submitted
\* allocation, in the same step; a call without allocation returns True and
\* changes nothing.
C6_CommitWhenAllApply ==
    [][\A p \in Procs :
         /\ (Finishing(p) /\ ~Mismatch(p)) =>
               /\ save_ret'[p]
               /\ \A l \in LineIds :
                     blue_lines'[l] = blue_lines[l] - AllocatedOn(all_allocations[p], l)
               /\ Len(match_records') = Len(match_records) + Len(all_allocations[p])
               /\ SubSeq(match_records', 1, Len(match_records)) = match_records
               /\ \A i \in 1..Len(all_allocations[p]) :
                     LET rec == match_records'[Len(match_records) + i]
                     IN  /\ rec.batch_id = p
                         /\ rec.blue_line_id = all_allocations[p][i].line_id
                         /\ rec.amount_used = all_allocations[p][i].amount_used
         /\ (pc[p] = "matched" /\ pc'[p] = "saved") =>
               /\ save_ret'[p]
               /\ blue_lines' = blue_lines /\ match_records' = match_records
      ]_vars

\* C6 witness: a committed call that had submitted two allocations on one line
C6_Witness ==
    \E p \in Procs :
        /\ Saved(p) /\ save_ret[p]
        /\ \E i, j \in 1..Len(all_allocations[p]) :
              i # j /\ all_allocations[p][i].line_id = all_allocations[p][j].line_id

\* C7: after a failed row-count check, the lines reported as conflicting are
\* exactly the lines of the allocations whose UPDATE hit no row.
C7_ConflictReportExact ==
    \A p \in Procs : (Saved(p) /\ ~save_ret[p]) =>
        {failed_lines[p][i] : i \in 1..Len(failed_lines[p])}
            = {all_allocations[p][k].line_id : k \in not_applied[p]}

\* C8: the remaining of every line is >= 0 in every reachable state, as
\* committed and as every open transaction reads it.
C8_NonNegative ==
    \A l \in LineIds :
        /\ blue_lines[l] >= 0
        /\ \A p \in Procs : SeenRemaining(p, l) >= 0

\* C8 witness: of two processes that drew from the same line, one committed
\* and the other, working from its stale snapshot, was refused
C8_Witness ==
    \E p, q \in Procs :
        /\ p # q /\ Saved(p) /\ save_ret[p] /\ Saved(q) /\ ~save_ret[q]
        /\ \E k \in not_applied[q] :
              AllocatedOn(all_allocations[p], all_allocations[q][k].line_id) > 0

\* p has submitted an allocation on a line others changed since p's fetch
StaleAllocation(p, k) == all_allocations[p][k].line_id \in changed[p]

\* C9 as claimed: a commit with an allocation on a line that another writer
\* changed between the fetch and the commit does not succeed.
C9_AnyChangeDetected ==
    \A p \in Procs :
        (Saved(p) /\ \E k \in 1..Len(all_allocations[p]) : StaleAllocation(p, k))
            => ~save_ret[p]

\* p's conditional decrement on a line others changed since p's fetch hit no row
Shortfall(p) == \E k \in not_applied[p] : StaleAllocation(p, k)

\* C9 amended: a commit with an allocation on a line that another writer
\* lowered, between the fetch and the commit, so far that the conditional
\* decrement of that allocation hit no row returns False, leaves no match record
\* of the call, and the step that ends it changes no remaining.
C9_ShortfallDetected ==
    /\ [](\A p \in Procs : (Saved(p) /\ Shortfall(p)) => (~save_ret[p] /\ NoRecordOf(p)))
    /\ [][\A p \in Procs : (Finishing(p) /\ Shortfall(p)) =>
               (blue_lines' = blue_lines /\ match_records' = match_records)]_vars

\* C9 witness: a commit refused over a line another process had lowered
C9_Witness ==
    \E p \in Procs :
        Saved(p) /\ ~save_ret[p] /\ Shortfall(p)

\* C10: on a non-empty candidate list match_single succeeds exactly when the
\* balances add up to at least amount - 0.01, and then amount - total_matched
\* lies in [0, 0.01].
C10_SuccessIffCovered ==
    (single_result # None /\ single_candidates # <<>>) =>
        /\ single_result.success <=>
             SumSeq([i \in 1..Len(single_candidates) |-> single_candidates[i].remaining])
                >= single_negative.amount - EPS
        /\ single_result.success =>
             /\ single_negative.amount - single_result.total_matched >= 0
             /\ single_negative.amount - single_result.total_matched <= EPS

\* C10 witness: a success that rests on the tolerance, every candidate drained
C10_Witness ==
    /\ single_result.success
    /\ single_negative.amount > EPS
    /\ single_result.total_matched = single_negative.amount - EPS

\* the sum of amount_used over the allocations of a result
SumUsed(r) == SumSeq([j \in 1..Len(r.allocations) |-> r.allocations[j].amount_used])

\* the sum of remaining over a candidate list
SumRemaining(cands) == SumSeq([i \in 1..Len(cands) |-> cands[i].remaining])

Abs(x) == IF x < 0 THEN -x ELSE x

\* C11: when match_single succeeds, the sum of amount_used over its allocations
\* equals total_matched and is within 0.01 of min(amount, sum of remaining), and
\* the candidates' total remaining after the allocations are applied is the
\* total before minus the sum of amount_used.
C11_Conservation ==
    (single_result # None /\ single_result.success) =>
        /\ SumUsed(single_result) = single_result.total_matched
        /\ Abs(SumUsed(single_result)
                 - Min(single_negative.amount, SumRemaining(single_candidates))) <= EPS
        /\ SumRemaining(ApplyAllocations(single_candidates, single_result))
              = SumRemaining(single_candidates) - SumUsed(single_result)

\* C11 witness: a success over several lines that leaves a part of the last one
C11_Witness ==
    /\ single_result.success
    /\ Len(single_result.allocations) >= 2
    /\ single_result.allocations[Len(single_result.allocations)].remaining_after > 0
    /\ SumRemaining(single_candidates) > single_negative.amount

\* C12: every allocation of a match_single result draws from the candidate at
\* its position between 0 and that candidate's remaining, and its
\* remaining_after is that remaining minus amount_used, never below 0.
C12_AllocationBounds ==
    single_result # None =>
        /\ Len(single_result.allocations) <= Len(single_candidates)
        /\ \A j \in 1..Len(single_result.allocations) :
              LET a == single_result.allocations[j]
                  c == single_candidates[j]
              IN  /\ a.blue_line_id = c.line_id
                  /\ 0 <= a.amount_used /\ a.amount_used <= c.remaining
                  /\ a.remaining_after = c.remaining - a.amount_used
                  /\ a.remaining_after >= 0

\* C12 witness: a line smaller than the need was drained and the next one cut
C12_Witness ==
    /\ single_result # None
    /\ \E j \in 1..Len(single_result.allocations) :
          /\ j > 1
          /\ single_result.allocations[j - 1].remaining_after = 0
          /\ single_result.allocations[j - 1].amount_used > 0
          /\ single_result.allocations[j].remaining_after > 0

\* C13: match_single gives NO_CANDIDATES exactly on an empty candidate list,
\* INSUFFICIENT_TOTAL_AMOUNT exactly on a non-empty list whose balances do not
\* reach amount - 0.01, and no failure_reason exactly on success.
C13_FailureReason ==
    single_result # None =>
        /\ single_result.failure_reason = NO_CANDIDATES <=> single_candidates = <<>>
        /\ single_result.failure_reason = INSUFFICIENT_TOTAL_AMOUNT <=>
              (/\ single_candidates # <<>>
               /\ SumRemaining(single_candidates) < single_negative.amount - EPS)
        /\ single_result.failure_reason = NoReason <=> single_result.success

\* C13 witness: an empty list for a demand that is itself within the tolerance
C13_Witness ==
    /\ single_result # None
    /\ single_candidates = <<>>
    /\ single_negative.amount <= EPS
    /\ single_result.failure_reason = NO_CANDIDATES

\* the latest _match_batch_standard call of p, as logged
LastCall(p) == call_log[p][Len(call_log[p])]

\* the match_single invocations of a logged call, in order
Calls(call) == SelectSeq(call.trace, LAMBDA e : e.kind = "alloc")

\* the candidate queries of a logged call, in order
Fetches(call) == SelectSeq(call.trace, LAMBDA e : e.kind # "alloc")

\* how often match_single was invoked for invoice id in a logged call
TimesCalled(call, id) ==
    Cardinality({i \in 1..Len(Calls(call)) : Calls(call)[i].id = id})

\* C14: in a _match_batch_standard call, every demand of a key for which the
\* source returned no candidate gets a failed result with NO_CANDIDATES at its
\* index and match_single is not invoked for it; for every demand of a key with
\* candidates match_single is invoked exactly once.
C14_NoCandidatesSkipsAllocator ==
    \A p \in Procs : call_log[p] # <<>> =>
        \A j \in 1..Len(groups[p]) : \A k \in 1..Len(groups[p][j].members) :
            LET g == groups[p][j]
                m == g.members[k]
            IN  IF group_candidates[p][g.key] = <<>>
                THEN /\ results[p][m.original_index] =
                          MatchResult(m.negative.invoice_id, FALSE, <<>>, 0, 0,
                                      NO_CANDIDATES)
                     /\ TimesCalled(LastCall(p), m.negative.invoice_id) = 0
                ELSE TimesCalled(LastCall(p), m.negative.invoice_id) = 1

\* C14 witness: a call with a demand of a key without candidates and a matched
\* demand of another key
C14_Witness ==
    /\ call_log[1] # <<>>
    /\ Len(groups[1]) = 2
    /\ \E j \in 1..Len(groups[1]) : group_candidates[1][groups[1][j].key] = <<>>
    /\ \E i \in 1..Len(results[1]) : results[1][i].success

\* the negatives of the logged calls, one after another
RECURSIVE ConcatNegatives(_)
ConcatNegatives(log) ==
    IF log = <<>> THEN <<>> ELSE Head(log).negatives \o ConcatNegatives(Tail(log))

\* the results of the logged calls, one after another
RECURSIVE ConcatResults(_)
ConcatResults(log) ==
    IF log = <<>> THEN <<>> ELSE Head(log).results \o ConcatResults(Tail(log))

\* C15: when match_batch has returned, a list below the threshold went through
\* one _match_batch_standard call on the whole list; a longer list went through
\* calls on consecutive chunks of batch_size demands, the last chunk possibly
\* shorter, in input order; the returned list is the results of the calls, one
\* after another.
C15_RoutingAndChunks ==
    \A p \in Procs : Done(p) =>
        /\ ConcatNegatives(call_log[p]) = negatives[p]
        /\ ConcatResults(call_log[p]) = returned[p]
        /\ IF Len(negatives[p]) < STREAMING_THRESHOLD
           THEN Len(call_log[p]) = 1
           ELSE \A i \in 1..Len(call_log[p]) :
                   /\ Len(call_log[p][i].negatives) >= 1
                   /\ Len(call_log[p][i].negatives) <= BATCH_SIZE
                   /\ i < Len(call_log[p]) => Len(call_log[p][i].negatives) = BATCH_SIZE

\* C15 witness: a streamed call whose last chunk is shorter than the others
C15_Witness ==
    /\ Done(1)
    /\ Len(call_log[1]) >= 2
    /\ Len(LastCall(1).negatives) < BATCH_SIZE

\* the position in the call's input of the demand with invoice id
NegIndex(call, id) ==
    CHOOSE k \in 1..Len(call.negatives) : call.negatives[k].invoice_id = id

\* the demand at input position ia goes before the one at ib under a strategy
GoesBefore(negs, ia, ib, strategy) ==
    LET a == negs[ia]
        b == negs[ib]
    IN  IF strategy = "amount_desc"
        THEN a.amount > b.amount \/ (a.amount = b.amount /\ ia < ib)
        ELSE IF strategy = "amount_asc"
        THEN a.amount < b.amount \/ (a.amount = b.amount /\ ia < ib)
        ELSE IF strategy = "priority_desc"
        THEN \/ a.priority > b.priority
             \/ a.priority = b.priority /\ a.amount > b.amount
             \/ a.priority = b.priority /\ a.amount = b.amount /\ ia < ib
        ELSE ia < ib

CallKeys(call) == {GroupKey(call.negatives[i]) : i \in 1..Len(call.negatives)}

\* the keys carried by the queries of a logged call, query by query
FetchedKeys(call) ==
    UNION {{Fetches(call)[i].keys[k] : k \in 1..Len(Fetches(call)[i].keys)} :
              i \in 1..Len(Fetches(call))}

\* C17: in every _match_batch_standard call the candidates are fetched per
\* distinct key: a source with batched fetch gets exactly one query, which
\* carries every distinct key once; any other source gets exactly one
\* get_candidates query per distinct key; and every query comes before the
\* first match_single invocation.
C17_FetchOncePerKey ==
    \A p \in Procs : \A c \in 1..Len(call_log[p]) :
        LET call == call_log[p][c]
            f    == Fetches(call)
        IN  /\ FetchedKeys(call) = CallKeys(call)
            /\ IF batched[p]
               THEN /\ Len(f) = 1
                    /\ f[1].kind = "batch"
                    /\ Len(f[1].keys) = Cardinality(CallKeys(call))
               ELSE /\ Len(f) = Cardinality(CallKeys(call))
                    /\ \A i \in 1..Len(f) : f[i].kind = "single" /\ Len(f[i].keys) = 1
            /\ \A i, j \in 1..Len(call.trace) :
                  (call.trace[i].kind = "alloc" /\ call.trace[j].kind # "alloc") => j < i

\* C17 witness: a batched call with two keys: one query, then the allocations
C17_Witness ==
    /\ batched[1]
    /\ call_log[1] # <<>>
    /\ Cardinality(CallKeys(LastCall(1))) = 2
    /\ Len(Fetches(LastCall(1))) = 1
    /\ Len(Calls(LastCall(1))) = 2

\* C18: in a batched fetch of _match_batch_standard, the candidate list of
\* every key holds at most min(DYNAMIC_LIMIT_BASE x the number of demands of
\* that key in the call, DYNAMIC_LIMIT_MAX) lines.
C18_DynamicCap ==
    \A p \in Procs : (batched[p] /\ call_log[p] # <<>>) =>
        \A j \in 1..Len(groups[p]) :
            Len(group_candidates[p][groups[p][j].key])
                <= Min(DYNAMIC_LIMIT_BASE * Len(groups[p][j].members), DYNAMIC_LIMIT_MAX)

C20_ConnectionReleased ==
    /\ \A p \in Procs : db_pc[p] = "done" => \A c \in Conns : pool_used[c] # p
    /\ pool_idle \cap conn_closed = {}

\* the steps of the match_single invocations of all logged calls of p
GroupStepsOf(p) ==
    UNION {{Calls(call_log[p][c])[i].step : i \in 1..Len(Calls(call_log[p][c]))} :
              c \in 1..Len(call_log[p])}

\* the remaining of line l in a list of candidates
RemainingIn(cands, l) ==
    SumSeq([k \in 1..Len(cands) |-> IF cands[k].line_id = l THEN cands[k].remaining ELSE 0])

\* the need left when allocation j of a result is made
NeedBefore(negative, allocations, j) ==
    negative.amount - SumSeq([i \in 1..(j - 1) |-> allocations[i].amount_used])

\* C21: in a batch call the allocations of a successful demand go through the
\* lines of its key's local snapshot that hold more than 0.01, smallest balance
\* first: every allocated line holds more than 0.01 in the snapshot, no line is
\* allocated twice, the balances are ascending along the allocation list, no
\* line left out holds less than an allocated one, and every allocation is made
\* while the outstanding need is above 0.01.
C21_SmallestFirst ==
    \A p \in Procs : \A e \in GroupStepsOf(p) :
        e.result.success =>
            LET allocs   == e.result.allocations
                snap     == e.local_candidates
                eligible == {snap[k].line_id : k \in {n \in 1..Len(snap) :
                                                        snap[n].remaining > EPS}}
                used     == {allocs[j].blue_line_id : j \in 1..Len(allocs)}
            IN  /\ used \subseteq eligible
                /\ Cardinality(used) = Len(allocs)
                /\ \A j, k \in 1..Len(allocs) :
                      j < k => RemainingIn(snap, allocs[j].blue_line_id)
                                  <= RemainingIn(snap, allocs[k].blue_line_id)
                /\ \A l \in used : \A m \in eligible \ used :
                      RemainingIn(snap, l) <= RemainingIn(snap, m)
                /\ \A j \in 1..Len(allocs) :
                      NeedBefore(e.negative, allocs, j) > EPS

\* C21 witness: a demand was allocated over two lines, the smaller first, from
\* a snapshot that an earlier demand of the call had lowered
C21_Witness ==
    \E e \in GroupStepsOf(1) :
        /\ e.result.success
        /\ Len(e.result.allocations) = 2
        /\ RemainingIn(e.local_candidates, e.result.allocations[1].blue_line_id)
              < RemainingIn(e.local_candidates, e.result.allocations[2].blue_line_id)
        /\ \E l \in LineIds :
              /\ LineKey(l) \in DOMAIN group_candidates[1]
              /\ RemainingIn(e.local_candidates, l)
                    < RemainingIn(group_candidates[1][LineKey(l)], l)

\* the steps of the latest call of p that belong to a key, in order
KeySteps(p, key) ==
    LET evs == SelectSeq(Calls(LastCall(p)), LAMBDA e : e.keys = <<key>>)
    IN  [i \in 1..Len(evs) |-> evs[i].step]

\* what a result draws from line l
DrawnBy(r, l) == UsedOn(<<r>>, l)

\* C22: in a _match_batch_standard call every demand of a key with candidates
\* is processed, whatever failed before it; the first demand of a key finds the
\* balances as fetched, and each later one finds the balances its predecessor
\* found, lowered by what the predecessor drew if it succeeded and unchanged if
\* it failed.
C22_FailureLeavesSnapshot ==
    \A p \in Procs : call_log[p] # <<>> =>
        \A g \in 1..Len(groups[p]) :
            LET key     == groups[p][g].key
                fetched == group_candidates[p][key]
                steps   == KeySteps(p, key)
            IN  fetched # <<>> =>
                  /\ Len(steps) = Len(groups[p][g].members)
                  /\ steps[1].local_candidates = fetched
                  /\ \A i \in 1..(Len(steps) - 1) :
                        LET before == steps[i].local_candidates
                            after  == steps[i + 1].local_candidates
                        IN  /\ Len(after) = Len(before)
                            /\ \A k \in 1..Len(before) :
                                  /\ after[k].line_id = before[k].line_id
                                  /\ after[k].remaining = before[k].remaining
                                        - DrawnBy(steps[i].result, before[k].line_id)
                            /\ ~steps[i].result.success => after = before

\* C22 witness: a demand failed on more than 0.01 of balances and the next
\* demand of the same key was allocated from them
C22_Witness ==
    /\ call_log[1] # <<>>
    /\ \E key \in {KeyA, KeyB} :
          LET steps == KeySteps(1, key)
          IN  /\ Len(steps) = 2
              /\ steps[1].result.failure_reason = INSUFFICIENT_TOTAL_AMOUNT
              /\ steps[2].result.success
              /\ steps[2].result.allocations # <<>>

\* the demand of a list that carries an invoice id
DemandOf(negs, id) == negs[CHOOSE k \in 1..Len(negs) : negs[k].invoice_id = id]

\* every allocation of a result is on a line of the key
WithinKey(r, key) ==
    \A j \in 1..Len(r.allocations) : LineKey(r.allocations[j].blue_line_id) = key

\* C23: every allocation of every result of a batch call, as match_single
\* returned it and as match_batch returns it, is on a line whose (tax_rate,
\* buyer_id, seller_id) is the key of the demand whose invoice_id the result
\* carries, with the batched fetch and with the fetch per key.
C23_OwnKeyOnly ==
    \A p \in Procs :
        /\ \A e \in GroupStepsOf(p) : WithinKey(e.result, GroupKey(e.negative))
        /\ Done(p) =>
              \A i \in 1..Len(returned[p]) :
                  WithinKey(returned[p][i],
                            GroupKey(DemandOf(negatives[p],
                                              returned[p][i].negative_invoice_id)))

\* C23 witness: one batched fetch served two keys and a demand of each key
\* was allocated
C23_Witness ==
    /\ Done(1) /\ batched[1] /\ ~Streamed(1)
    /\ \E i, j \in 1..Len(returned[1]) :
          /\ returned[1][i].allocations # <<>>
          /\ returned[1][j].allocations # <<>>
          /\ LineKey(returned[1][i].allocations[1].blue_line_id) = KeyA
          /\ LineKey(returned[1][j].allocations[1].blue_line_id) = KeyB

\* C24: in a _match_batch_standard call, a demand of a key for which the source
\* returned credit lines is never reported as NO_CANDIDATES: when it fails, also
\* after earlier demands of the call consumed the lines, its failure_reason is
\* INSUFFICIENT_TOTAL_AMOUNT.
C24_NoCandidatesMeansNoneFetched ==
    \A p \in Procs : call_log[p] # <<>> =>
        \A g \in 1..Len(groups[p]) :
            LET key   == groups[p][g].key
                steps == KeySteps(p, key)
            IN  group_candidates[p][key] # <<>> =>
                  \A i \in 1..Len(steps) :
                      /\ steps[i].result.failure_reason # NO_CANDIDATES
                      /\ ~steps[i].result.success =>
                            steps[i].result.failure_reason = INSUFFICIENT_TOTAL_AMOUNT

\* C25: fragments_created of a successful match_single result is the number of
\* its allocations whose remaining_after is above 0 and below
\* fragment_threshold; a line left with 0 or with exactly fragment_threshold
\* is not counted.
C25_FragmentCount ==
    (single_result # None /\ single_result.success) =>
        single_result.fragments_created =
            Cardinality({j \in 1..Len(single_result.allocations) :
                            /\ single_result.allocations[j].remaining_after > 0
                            /\ single_result.allocations[j].remaining_after
                                  < fragment_threshold})

\* C25 witness: a success that drained one line and left exactly
\* fragment_threshold on the next, counted as no fragment
C25_Witness ==
    /\ single_result.success
    /\ single_result.fragments_created = 0
    /\ \E j, k \in 1..Len(single_result.allocations) :
          /\ single_result.allocations[j].remaining_after = 0
          /\ single_result.allocations[j].amount_used > 0
          /\ single_result.allocations[k].remaining_after = fragment_threshold

\* C26: when match_batch has returned, direct or streamed, and the store was
\* not modified meanwhile, the amounts drawn from a line by all returned
\* allocations add up to at most the remaining the line has in the store.
C26_NoDoubleSpendAcrossChunks ==
    \A p \in Procs : Done(p) =>
        \A l \in LineIds : UsedOn(returned[p], l) <= blue_lines[l]

\* the sum of amount_used of the committed match records of line l
RecordedOn(records, l) ==
    SumSeq([i \in 1..Len(records) |->
              IF records[i].blue_line_id = l THEN records[i].amount_used ELSE 0])

\* C27: with the allocator processes as the only writers, in every reachable
\* state the committed remaining of every line plus the amounts of the
\* committed match records of that line is the remaining the line started
\* with: no decrement is committed without its match record and no match
\* record without its decrement.
C27_LedgerBalanced ==
    \A l \in LineIds :
        initial_remaining[l] = blue_lines[l] + RecordedOn(match_records, l)

\* C27 witness: both processes have committed, each with a match record on the
\* same line
C27_Witness ==
    /\ \A p \in Procs : Saved(p) /\ save_ret[p]
    /\ \E i, j \in 1..Len(match_records) :
          /\ match_records[i].batch_id = 1
          /\ match_records[j].batch_id = 2
          /\ match_records[i].blue_line_id = match_records[j].blue_line_id

\* save_match_results of p has returned, after the row-count check or from
\* its except branch
SaveReturned(p) == pc[p] \in {"saved", "aborted"}

\* no UPDATE of another process has ever applied
SoleWriter(p) == \A q \in Procs \ {p} : updated_count[q] = 0

\* C28: save_match_results on the results of one non-streamed match_batch call
\* returns True when no other process committed a change to the store between
\* the fetch of the call and its row-count check, and it returns True on every
\* path when no other process wrote at all; several demands of the call that
\* drew from one line are included.
C28_SaveSucceedsUndisturbed ==
    \A p \in Procs : ~Streamed(p) =>
        /\ (Saved(p) /\ changed[p] = {}) => save_ret[p]
        /\ (SaveReturned(p) /\ SoleWriter(p)) => save_ret[p]

\* C28 witness: a call in which two demands drew from the same line was
\* committed undisturbed
C28_Witness ==
    \E p \in Procs :
        /\ Saved(p) /\ save_ret[p] /\ changed[p] = {} /\ SoleWriter(p)
        /\ ~Streamed(p)
        /\ \E l \in LineIds : \E i, j \in 1..Len(returned[p]) :
              /\ i # j
              /\ DrawnBy(returned[p][i], l) > 0
              /\ DrawnBy(returned[p][j], l) > 0

\* C29: in a successful match_single result every allocation but the last has
\* remaining_after 0, so at most one allocation leaves a positive balance and
\* fragments_created is 0 or 1, in whatever order the candidates come.
C29_OnlyLastLeavesBalance ==
    (single_result # None /\ single_result.success) =>
        LET allocs == single_result.allocations
        IN  /\ \A j \in 1..(Len(allocs) - 1) : allocs[j].remaining_after = 0
            /\ Cardinality({j \in 1..Len(allocs) : allocs[j].remaining_after > 0}) <= 1
            /\ single_result.fragments_created \in {0, 1}

\* C29 witness: candidates that are not in ascending order, a line drained and
\* a fragment left on the last line used
C29_Witness ==
    /\ single_result.success
    /\ Len(single_result.allocations) >= 2
    /\ \E i, j \in 1..Len(single_result.allocations) :
          i < j /\ single_candidates[i].remaining > single_candidates[j].remaining
    /\ single_result.allocations[1].amount_used > 0
    /\ single_result.allocations[Len(single_result.allocations)].remaining_after > 0
    /\ single_result.fragments_created = 1

\* C30: every successful match_single result, for every amount > 0 and also
\* for amounts of at most 0.01, holds at least one allocation, and every one of
\* its allocations has amount_used > 0.
C30_SuccessHasAllocations ==
    (single_result # None /\ single_result.success /\ single_negative.amount > 0) =>
        /\ Len(single_result.allocations) >= 1
        /\ \A j \in 1..Len(single_result.allocations) :
              single_result.allocations[j].amount_used > 0
====
